---------------------------- MODULE Spec2Model ----------------------------
(***************************************************************************)
(* Model of the window / inter-process command-posting core of CAE         *)
(* (src/src/gui/window.py): the Window session state, run_cgx, the         *)
(* get_wid polling wrapper, the post wrapper and the two OS variants       *)
(* (LinuxWindow, WindowsWindow) of get_wid, log_window_list, post, align.  *)
(*                                                                         *)
(* Characters are one-character strings; a text is a sequence of them.     *)
(* The backspace character is written "\\b" and the grave accent           *)
(* "GRAVE", because neither can be put in a string of this language.       *)
(***************************************************************************)
EXTENDS FiniteSets, Integers, Sequences, TLC

(***************************************************************************)
(* Bounds of the model.                                                    *)
(***************************************************************************)
\* number of child processes run_cgx may start in one behaviour
MaxLaunch == 2
\* longest window title built in the title-matching specification
MaxTitleLen == 9
\* widest screen of the window-layout specification
MaxWidth == 12
\* most keys in one call of send_hotkey
MaxKeys == 3

(***************************************************************************)
(* Program constants.                                                      *)
(***************************************************************************)
\* time.sleep(0.1) in the get_wid loop, in milliseconds
SleepMs == 100
\* "perf_counter() - start > 5", in milliseconds
TimeoutMs == 5000
\* virtual key code of Shift, keybd_event(0x10, ...)
VK_SHIFT == 16

\* None, where a process or a window identifier is expected
None == 0
\* None, where the name of a function is expected
NoName == "None"

LowerSeq ==
    << "a","b","c","d","e","f","g","h","i","j","k","l","m",
       "n","o","p","q","r","s","t","u","v","w","x","y","z" >>
UpperSeq ==
    << "A","B","C","D","E","F","G","H","I","J","K","L","M",
       "N","O","P","Q","R","S","T","U","V","W","X","Y","Z" >>
DigitSeq == << "0","1","2","3","4","5","6","7","8","9" >>

Range(f) == { f[i] : i \in DOMAIN f }

\* str.lower() on one character
LowerChar(c) ==
    IF c \in Range(UpperSeq)
    THEN LowerSeq[CHOOSE i \in 1..26 : UpperSeq[i] = c]
    ELSE c

\* str.lower() on a text
Lower(s) == [ i \in 1..Len(s) |-> LowerChar(s[i]) ]

(***************************************************************************)
(* LinuxWindow.keyboardMapping: symbol -> <<keysym name, case>>.           *)
(***************************************************************************)
LINUX_KEY_NAMES ==
    { "Shift_L", "Control_L", "Alt_L", "Pause", "Caps_Lock",
      "Escape", "Page_Up", "Page_Down", "End", "Home",
      "Left", "Up", "Right", "Down", "Print",
      "Insert", "Delete", "Help", "Super_L", "Super_R",
      "KP_0", "KP_1", "KP_2", "KP_3", "KP_4", "KP_5", "KP_6",
      "KP_7", "KP_8", "KP_9", "KP_Multiply", "KP_Add",
      "KP_Separator", "KP_Subtract", "KP_Decimal", "KP_Divide",
      "F1", "F2", "F3", "F4", "F5", "F6", "F7", "F8", "F9", "F10",
      "F11", "F12",
      "Num_Lock", "Scroll_Lock", "Shift_R", "Control_R", "Alt_R" }

LinuxLiteral ==
    ("\t" :> <<"Tab", 0>>) @@ ("\n" :> <<"Return", 0>>) @@
    ("\r" :> <<"Return", 0>>) @@ ("\\b" :> <<"BackSpace", 0>>) @@
    (" " :> <<"space", 0>>) @@ ("!" :> <<"exclam", 1>>) @@
    ("#" :> <<"numbersign", 1>>) @@ ("%" :> <<"percent", 1>>) @@
    ("$" :> <<"dollar", 1>>) @@ ("&" :> <<"ampersand", 1>>) @@
    ("\"" :> <<"quotedbl", 1>>) @@ ("'" :> <<"apostrophe", 0>>) @@
    ("(" :> <<"parenleft", 1>>) @@ (")" :> <<"parenright", 1>>) @@
    ("*" :> <<"asterisk", 1>>) @@ ("=" :> <<"equal", 0>>) @@
    ("+" :> <<"plus", 1>>) @@ ("," :> <<"comma", 0>>) @@
    ("-" :> <<"minus", 0>>) @@ ("." :> <<"period", 0>>) @@
    ("/" :> <<"slash", 0>>) @@ (":" :> <<"colon", 1>>) @@
    (";" :> <<"semicolon", 0>>) @@ ("<" :> <<"less", 0>>) @@
    (">" :> <<"greater", 1>>) @@ ("?" :> <<"question", 1>>) @@
    ("@" :> <<"at", 1>>) @@ ("[" :> <<"bracketleft", 0>>) @@
    ("]" :> <<"bracketright", 0>>) @@ ("^" :> <<"asciicircum", 1>>) @@
    ("_" :> <<"underscore", 1>>) @@ ("GRAVE" :> <<"grave", 0>>) @@
    ("{" :> <<"braceleft", 1>>) @@ ("\\" :> <<"backslash", 0>>) @@
    ("|" :> <<"bar", 1>>) @@ ("}" :> <<"braceright", 1>>) @@
    ("~" :> <<"asciitilde", 1>>)

LinuxKeyboardMapping ==
    LinuxLiteral
    @@ [ c \in LINUX_KEY_NAMES |-> <<c, 0>> ]
    @@ [ c \in Range(DigitSeq) \cup Range(LowerSeq) |-> <<c, 0>> ]
    @@ [ c \in Range(UpperSeq) |-> <<c, 1>> ]

(***************************************************************************)
(* WindowsWindow.keyboardMapping: symbol -> <<virtual key code, case>>.    *)
(***************************************************************************)
\* ord(c) for digits and letters
Ord(c) ==
    IF c \in Range(DigitSeq)
    THEN 47 + (CHOOSE i \in 1..10 : DigitSeq[i] = c)
    ELSE IF c \in Range(UpperSeq)
    THEN 64 + (CHOOSE i \in 1..26 : UpperSeq[i] = c)
    ELSE 96 + (CHOOSE i \in 1..26 : LowerSeq[i] = c)

WindowsLiteral ==
    ("\t" :> <<9, 0>>) @@ ("\n" :> <<13, 0>>) @@ (" " :> <<32, 0>>) @@
    ("!" :> <<49, 1>>) @@ ("@" :> <<50, 1>>) @@ ("#" :> <<51, 1>>) @@
    ("$" :> <<52, 1>>) @@ ("%" :> <<53, 1>>) @@ ("^" :> <<54, 1>>) @@
    ("&" :> <<55, 1>>) @@ ("*" :> <<56, 1>>) @@ ("(" :> <<57, 1>>) @@
    (")" :> <<48, 1>>) @@
    (";" :> <<186, 0>>) @@ (":" :> <<186, 1>>) @@
    ("=" :> <<187, 0>>) @@ ("+" :> <<187, 1>>) @@
    ("," :> <<188, 0>>) @@ ("<" :> <<188, 1>>) @@
    ("-" :> <<189, 0>>) @@ ("_" :> <<189, 1>>) @@
    ("." :> <<190, 0>>) @@ (">" :> <<190, 1>>) @@
    ("/" :> <<191, 0>>) @@ ("?" :> <<191, 1>>) @@
    ("GRAVE" :> <<192, 0>>) @@ ("~" :> <<192, 1>>) @@
    ("[" :> <<219, 0>>) @@ ("{" :> <<219, 1>>) @@
    ("\\" :> <<220, 0>>) @@ ("|" :> <<220, 1>>) @@
    ("]" :> <<221, 0>>) @@ ("}" :> <<221, 1>>) @@
    ("'" :> <<222, 0>>) @@ ("\"" :> <<222, 1>>) @@
    ("VK_LWIN" :> <<91, 0>>) @@ ("VK_LEFT" :> <<37, 0>>) @@
    ("VK_UP" :> <<38, 0>>) @@ ("VK_RIGHT" :> <<39, 0>>) @@
    ("VK_DOWN" :> <<40, 0>>)

WindowsKeyboardMapping ==
    WindowsLiteral
    @@ [ c \in Range(DigitSeq) |-> <<Ord(c), 0>> ]
    @@ [ c \in Range(LowerSeq) |-> <<Ord(c) - 32, 0>> ]
    @@ [ c \in Range(UpperSeq) |-> <<Ord(c), 1>> ]


(***************************************************************************)
(* Window title matching, get_wid lines 272-273 / 449-450:                 *)
(*   regex = '(\S+ - )*' + title.lower() + '( - \S+)*'                     *)
(*   re.fullmatch(regex, wname.lower())                                    *)
(* The title is a text of letters and spaces, which the regular            *)
(* expression takes literally.                                             *)
(***************************************************************************)
\* \S of the regular expression: any character that is not white space
NonSpace(c) == c \notin { " ", "\t", "\n", "\r" }

\* the literal ' - ' at position i of s
Delimiter(s, i) ==
    /\ i + 2 <= Len(s)
    /\ s[i] = " " /\ s[i + 1] = "-" /\ s[i + 2] = " "

\* '( - \S+)*' followed by the end of the text, from position i on
RECURSIVE MatchSuffixes(_, _)
MatchSuffixes(s, i) ==
    \/ i = Len(s) + 1
    \/ /\ Delimiter(s, i)
       /\ \E j \in (i + 3)..Len(s) :
            /\ \A k \in (i + 3)..j : NonSpace(s[k])
            /\ MatchSuffixes(s, j + 1)

\* the literal title at position i of s
TitleAt(t, s, i) ==
    /\ i + Len(t) - 1 <= Len(s)
    /\ \A k \in 1..Len(t) : s[i + k - 1] = t[k]

\* '(\S+ - )*' then the title then the suffixes, from position i on
RECURSIVE MatchPrefixes(_, _, _)
MatchPrefixes(t, s, i) ==
    \/ TitleAt(t, s, i) /\ MatchSuffixes(s, i + Len(t))
    \/ \E j \in i..Len(s) :
            /\ \A k \in i..j : NonSpace(s[k])
            /\ Delimiter(s, j + 1)
            /\ MatchPrefixes(t, s, j + 4)

\* a variant that compares the window name as it is, without lower()
FullMatchCaseSensitive(title, wname) == MatchPrefixes(Lower(title), wname, 1)

\* re.fullmatch(regex, wname.lower()) is not None
FullMatch(title, wname) == MatchPrefixes(Lower(title), Lower(wname), 1)

(***************************************************************************)
(* The windows of the desktop.  OwnWid is the window of this application,  *)
(* shown for as long as the application runs; the others open and close.   *)
(***************************************************************************)
CGX_TITLE ==
    << "C","a","l","c","u","l","i","X"," ","G","r","a","p","h","i","X" >>

OwnWid == 1
ViewerWids == { 2, 3 }
WindowIds == { OwnWid } \cup ViewerWids

\* the title each window shows
TitleOf ==
    (1 :> << "C","A","E" >>)
    @@ (2 :> CGX_TITLE)
    @@ (3 :> << "a","."," ","-"," " >> \o Lower(CGX_TITLE))


(***************************************************************************)
(* State.                                                                  *)
(***************************************************************************)
VARIABLES
    op_sys,          \* p.op_sys: "linux" | "windows", the variant in use
    size,            \* Window.size: the available screen area
    keyboardMapping, \* Window.keyboardMapping: symbol -> <<code, case>>
    hotkey,          \* send_hotkey: the keys of the call the application made
    cgx_process,     \* Window.cgx_process: None or the pid of the child
    wid1,            \* Window.wid1 .. wid4
    wid2,
    wid3,
    wid4,
    mode,            \* Window.mode
    stdout_readers,  \* Window.stdout_readers: sequence of [pid, active]
    alive,           \* pids of the child processes still running
    launched,        \* number of child processes started so far
    windows,         \* the visible top-level windows, in enumeration order
    foreground,      \* the foreground window, which keybd_event types into
    pc,              \* where the UI thread is
    caller,          \* the function that called run_cgx
    elapsed,         \* get_wid: perf_counter() - start, in milliseconds
    ids,             \* get_wid: the windows enumerated by the last poll
    wid_ret,         \* get_wid: the value returned
    post,            \* post: the command, the batch and the position in it
    ret,             \* outcome of the last call that returned
    killed,          \* run_cgx: the pids its kill found running and terminated
    events,          \* key events delivered and flushes, not yet observed
    log,             \* log records written, not yet observed
    moves,           \* window move/resize operations, not yet observed
    faked,           \* fake_input events of send_hotkey, not yet observed
    match_title,     \* title matching: the title looked for
    match_wname,     \* title matching: the name of the window at hand
    matched          \* title matching: whether re.fullmatch found a match

session == << cgx_process, wid1, wid2, wid3, wid4, mode, stdout_readers >>
desktop == << alive, launched, windows, foreground, killed >>
getwid  == << elapsed, ids, wid_ret >>
observed == << events, log, moves, faked >>
matcher == << match_title, match_wname, matched >>
vars == << op_sys, size, keyboardMapping, hotkey, session, desktop, pc, caller, getwid, post, ret, observed,
           matcher >>

\* the function of the application that calls run_cgx ("cgx_inp | cgx_frd")
Callers == { "cgx_inp" }

\* the screen area of the desktop the application usually runs on,
\* QDesktopWidget().availableGeometry()
ScreenSize == [ width |-> 1000, height |-> 700 ]

\* the commands the application posts
Cmds ==
    { << "A", "\\b" >>,
      << "é", "b", "é" >> }

\* a variant of the command that leaves 'read ' out
ReadCmdBare(file_name) == file_name

\* 'read ' + file_name, for a config file of the given name
ReadCmd(file_name) == << "r", "e", "a", "d", " " >> \o file_name
ISO_FBD == << "i" >>
COLORS_FBD == << "c" >>

NoPost == [ cmd |-> << >>, ctx |-> NoName, batch |-> 0, idx |-> 0,
            checked |-> FALSE, moved |-> FALSE ]

Record(level, msg, arg) == [ level |-> level, msg |-> msg, arg |-> arg ]

\* the keyboardMapping that __init__ of the variant builds
BuiltMapping(os) ==
    IF os = "linux" THEN LinuxKeyboardMapping ELSE WindowsKeyboardMapping

Constructed ==
    /\ op_sys \in { "linux", "windows" }
    /\ keyboardMapping = BuiltMapping(op_sys)
    /\ hotkey = << >>
    /\ cgx_process = None
    /\ wid1 = None /\ wid2 = None /\ wid3 = None /\ wid4 = None
    /\ mode = NoName
    /\ stdout_readers = << >>
    /\ alive = {}
    /\ launched = 0
    /\ windows = << OwnWid >>
    /\ foreground = OwnWid
    /\ pc = "idle"
    /\ caller = NoName
    /\ elapsed = 0 /\ ids = << >> /\ wid_ret = None
    /\ post = NoPost
    /\ ret = "none"
    /\ killed = {}
    /\ events = << >> /\ log = << >> /\ moves = << >> /\ faked = << >>

Init ==
    /\ Constructed
    /\ size = ScreenSize
    /\ match_title = CGX_TITLE /\ match_wname = << >> /\ matched = FALSE

(***************************************************************************)
(* The environment: child processes exit, windows open and close, the      *)
(* records and events produced so far are read off.                        *)
(***************************************************************************)
\* a child process exits on its own
ProcExit ==
    /\ \E p \in alive : alive' = alive \ { p }
    /\ UNCHANGED << op_sys, size, keyboardMapping, hotkey, matcher, session, launched, windows, foreground, killed,
                    pc, caller, getwid, post, ret, observed >>

InsertAt(seq, i, x) == SubSeq(seq, 1, i - 1) \o << x >> \o SubSeq(seq, i, Len(seq))
RemoveAt(seq, i) == SubSeq(seq, 1, i - 1) \o SubSeq(seq, i + 1, Len(seq))

\* a window becomes visible, anywhere in the enumeration order after the
\* application's own window
WindowOpen ==
    /\ \E w \in ViewerWids \ Range(windows), i \in 2..(Len(windows) + 1) :
            windows' = InsertAt(windows, i, w)
    /\ UNCHANGED << op_sys, size, keyboardMapping, hotkey, matcher, session, alive, launched, foreground, killed,
                    pc, caller, getwid, post, ret, observed >>

\* a window other than the application's own goes away
WindowClose ==
    /\ \E i \in 1..Len(windows) :
            /\ windows[i] # OwnWid
            /\ windows' = RemoveAt(windows, i)
            /\ foreground' = IF foreground = windows[i] THEN None ELSE foreground
    /\ UNCHANGED << op_sys, size, keyboardMapping, hotkey, matcher, session, alive, launched, killed,
                    pc, caller, getwid, post, ret, observed >>

\* nothing is left to read off
Quiet ==
    /\ events = << >> /\ log = << >> /\ moves = << >> /\ faked = << >>
    /\ post = NoPost /\ ret = "none"

\* the places where the UI thread is between two stages of its work
Stages == { "idle", "run_cgx_iso", "run_cgx_colors", "exited" }

\* the outcome of the stage that has just ended, with the records, events
\* and moves it produced, is read off
Observe ==
    /\ pc \in Stages
    /\ ~Quiet
    /\ events' = << >> /\ log' = << >> /\ moves' = << >> /\ faked' = << >>
    /\ post' = NoPost /\ ret' = "none"
    /\ UNCHANGED << op_sys, size, keyboardMapping, hotkey, matcher, session, desktop, pc, caller, getwid >>


(***************************************************************************)
(* get_wid: the method of each variant and the polling wrapper.            *)
(***************************************************************************)
\* whether the title of each window matches the title run_cgx looks for,
\* self.get_wid('CalculiX GraphiX')
MatchesCgx == [ w \in WindowIds |-> FullMatch(CGX_TITLE, TitleOf[w]) ]

\* positions of the windows of ws whose title matches
Matching(ws) == { i \in 1..Len(ws) : MatchesCgx[ws[i]] }

Min(S) == CHOOSE x \in S : \A y \in S : x <= y
Max(S) == CHOOSE x \in S : \A y \in S : x >= y

\* LinuxWindow.get_wid: the loop breaks at the first match
LinuxGetWid(ws) ==
    IF Matching(ws) = {} THEN None ELSE ws[Min(Matching(ws))]

\* WindowsWindow.get_wid: enum_proc overwrites self.wid at every match
WindowsGetWid(ws) ==
    IF Matching(ws) = {} THEN None ELSE ws[Max(Matching(ws))]

\* method(w, title) of the variant in use, for the title of the viewer
GetWidMethod(ws) ==
    IF op_sys = "linux" THEN LinuxGetWid(ws) ELSE WindowsGetWid(ws)

\* LinuxWindow.log_window_list: one record holding the whole list
LinuxLogWindowList(ws) == << Record("debug", "Window list:", ws) >>

\* WindowsWindow.log_window_list: one record for each visible window
WindowsLogWindowList(ws) ==
    [ i \in 1..Len(ws) |-> Record("debug", "window", ws[i]) ]

\* w.log_window_list() of the variant in use
LogWindowList(ws) ==
    IF op_sys = "linux" THEN LinuxLogWindowList(ws) ELSE WindowsLogWindowList(ws)

\* a variant of the deadline test that never fires
NeverTimedOut(t) == FALSE

\* time.perf_counter() - start > 5
TimedOut(t) == t > TimeoutMs

\* how long one pass of the loop takes: the sleep, or the sleep and a stall
Delays == { SleepMs, 2 * SleepMs }

\* one pass of the loop of wid_wrapper.fcn, and its return when it ends
GetWidTick ==
    /\ pc = "get_wid"
    /\ \E d \in Delays :
        LET t == elapsed + d
            wid == GetWidMethod(windows)
        IN  /\ elapsed' = t
            /\ ids' = windows
            /\ IF TimedOut(t)
               THEN /\ log' = log
                            \o << Record("error", "Can't get window.", CGX_TITLE) >>
                            \o LogWindowList(windows)
                            \o << Record("error", "Communication will not work.",
                                         CGX_TITLE) >>
                    /\ wid_ret' = None
                    /\ pc' = "run_cgx_attach"
               ELSE IF wid # None
               THEN /\ log' = log \o << Record("debug", "WID", wid) >>
                    /\ wid_ret' = wid
                    /\ pc' = "run_cgx_attach"
               ELSE UNCHANGED << log, wid_ret, pc >>
    /\ UNCHANGED << op_sys, size, keyboardMapping, hotkey, matcher, session, desktop, caller, post, ret,
                    events, moves, faked >>


(***************************************************************************)
(* post: the wrapper (preconditions, three batches) and the body of each   *)
(* variant.                                                                *)
(***************************************************************************)
\* w.cgx_process is not None and w.cgx_process.poll() is None
Running == cgx_process # None /\ cgx_process \in alive

\* a variant of the precondition that does not poll the child process
PostPreNoPoll == cgx_process # None /\ wid2 # None

\* a variant of the precondition that does not look at wid2
PostPreNoWid == Running

\* the three conditions of post_wrapper.fcn
PostPre == Running /\ wid2 # None

\* a variant that posts the command without the leading newline batch
BatchTextNoDrop(cmd, batch) ==
    IF batch = 1 THEN cmd \o << "\n" >>
    ELSE IF batch = 2 THEN << "\n" >>
    ELSE << " " >>

\* the text of each of the three calls of the body
BatchText(cmd, batch) ==
    IF batch = 1 THEN << "\n" >>
    ELSE IF batch = 2 THEN cmd \o << "\n" >>
    ELSE << " " >>

Event(type, code, state, window) ==
    [ type |-> type, code |-> code, state |-> state, window |-> window ]

\* LinuxWindow.post.sendkey: a press and a release sent to the viewer window
LinuxSendkeyEvents(symbol) ==
    LET code == keyboardMapping[symbol][1]
        case == keyboardMapping[symbol][2]
    IN  << Event("KeyPress", code, case, wid2),
           Event("KeyRelease", code, case, wid2) >>

\* a variant of the Windows sendkey that never releases Shift
WindowsSendkeyShiftStuck(symbol) ==
    LET code == keyboardMapping[symbol][1]
        case == keyboardMapping[symbol][2]
        shiftDown == IF case = 1
                     THEN << Event("keydown", VK_SHIFT, 0, None) >>
                     ELSE << >>
    IN  shiftDown
        \o << Event("keydown", code, case, None),
              Event("keyup", code, case, None) >>

\* WindowsWindow.post.sendkey: keybd_event names no window, the key goes
\* to whichever window is in the foreground
WindowsSendkeyEvents(symbol) ==
    LET code == keyboardMapping[symbol][1]
        case == keyboardMapping[symbol][2]
        shiftDown == IF case = 1
                     THEN << Event("keydown", VK_SHIFT, 0, None) >>
                     ELSE << >>
        shiftUp == IF case = 1
                   THEN << Event("keyup", VK_SHIFT, 0, None) >>
                   ELSE << >>
    IN  shiftDown
        \o << Event("keydown", code, case, None),
              Event("keyup", code, case, None) >>
        \o shiftUp

\* a variant of sendkey that writes no warning
SendkeyLogSilent(symbol) == << >>

\* the warning of sendkey for a symbol that is not in keyboardMapping
SendkeyLog(symbol) ==
    IF symbol \in DOMAIN keyboardMapping
    THEN << >>
    ELSE << Record("warning", "Symbol is not supported.", symbol) >>

\* the key events of sendkey for one symbol
SendkeyEvents(symbol) ==
    IF symbol \notin DOMAIN keyboardMapping
    THEN << >>
    ELSE IF op_sys = "linux"
    THEN LinuxSendkeyEvents(symbol)
    ELSE WindowsSendkeyEvents(symbol)

\* user32.SetForegroundWindow(hwnd): fails for what is no window
SetForegroundWindow(hwnd) ==
    IF hwnd \in Range(windows) THEN hwnd ELSE foreground

\* the return of post to the place it was called from
PostReturn(ctx, outcome) ==
    IF ctx = "user"
    THEN pc' = "idle" /\ ret' = outcome /\ UNCHANGED mode
    ELSE IF ctx = "iso"
    THEN pc' = "run_cgx_colors" /\ ret' = outcome /\ UNCHANGED mode
    ELSE pc' = "idle" /\ ret' = outcome /\ mode' = caller

\* post_wrapper.fcn: the call of post(cmd) up to the first batch
PostCall(cmd, ctx) ==
    IF PostPre
    THEN /\ post' = [ cmd |-> cmd, ctx |-> ctx, batch |-> 1, idx |-> 1,
                      checked |-> Running, moved |-> FALSE ]
         /\ pc' = "method_enter"
         /\ UNCHANGED << ret, mode >>
    ELSE /\ PostReturn(ctx, "post_noop")
         /\ UNCHANGED post

\* a variant of sendkey that adds an entry for a symbol it does not know
SendkeyMappingLearns(symbol) ==
    IF symbol \in DOMAIN keyboardMapping
    THEN keyboardMapping
    ELSE (symbol :> keyboardMapping[" "]) @@ keyboardMapping

\* keyboardMapping after sendkey(symbol): sendkey only looks the symbol up
SendkeyMapping(symbol) == keyboardMapping

\* post(cmd) called by the application
UserPost ==
    /\ pc = "idle"
    /\ Quiet
    /\ \E cmd \in Cmds : PostCall(cmd, "user")
    /\ UNCHANGED << op_sys, size, keyboardMapping, hotkey, matcher, cgx_process, wid1, wid2, wid3, wid4, stdout_readers,
                    desktop, caller, getwid, observed >>

\* the body of post begins: Windows moves the focus to the viewer
MethodEnter ==
    /\ pc = "method_enter"
    /\ pc' = "sendkey"
    /\ IF op_sys = "windows"
       THEN /\ foreground' = SetForegroundWindow(wid2)
            /\ post' = [ post EXCEPT !.moved = (wid2 \in Range(windows)) ]
            /\ events' = Append(events, Event("SetForegroundWindow", 0, 0, wid2))
       ELSE UNCHANGED << foreground, post, events >>
    /\ UNCHANGED << op_sys, size, keyboardMapping, hotkey, matcher, session, alive, launched, windows, killed,
                    caller, getwid, ret, log, moves, faked >>

\* sendkey for the next symbol of the batch
SendKey ==
    /\ pc = "sendkey"
    /\ LET text == BatchText(post.cmd, post.batch)
           symbol == text[post.idx]
       IN  /\ events' = events \o SendkeyEvents(symbol)
           /\ log' = log \o SendkeyLog(symbol)
           /\ post' = [ post EXCEPT !.idx = post.idx + 1 ]
           /\ pc' = IF post.idx = Len(text) THEN "method_exit" ELSE "sendkey"
           /\ keyboardMapping' = SendkeyMapping(symbol)
    /\ UNCHANGED << op_sys, size, hotkey, matcher, session, desktop, caller, getwid, ret,
                    moves, faked >>

\* the body of post ends: Linux flushes, Windows gives the focus to wid1;
\* then the next batch, or the return of post
MethodExit ==
    /\ pc = "method_exit"
    /\ IF op_sys = "windows"
       THEN /\ foreground' = SetForegroundWindow(wid1)
            /\ events' = Append(events, Event("SetForegroundWindow", 0, 0, wid1))
       ELSE /\ events' = Append(events, Event("sync", "", 0, wid2))
            /\ UNCHANGED foreground
    /\ IF post.batch < 3
       THEN /\ post' = [ post EXCEPT !.batch = post.batch + 1, !.idx = 1 ]
            /\ pc' = "method_enter"
            /\ UNCHANGED << ret, mode >>
       ELSE /\ PostReturn(post.ctx, "post_done")
            /\ UNCHANGED post
    /\ UNCHANGED << op_sys, size, keyboardMapping, hotkey, matcher, cgx_process, wid1, wid2, wid3, wid4, stdout_readers,
                    alive, launched, windows, killed,
                    caller, getwid, log, moves, faked >>


(***************************************************************************)
(* send_hotkey (Linux) and align.                                          *)
(***************************************************************************)
Reverse(seq) == [ i \in 1..Len(seq) |-> seq[Len(seq) + 1 - i] ]

\* a variant of send_hotkey that releases the keys in the order it
\* pressed them
SendHotkeySameOrder(keys) ==
    IF \E i \in 1..Len(keys) : keys[i] \notin DOMAIN keyboardMapping
    THEN << >>
    ELSE [ i \in 1..Len(keys) |->
             [ type |-> "KeyPress", code |-> keyboardMapping[keys[i]][1] ] ]
         \o [ i \in 1..Len(keys) |->
             [ type |-> "KeyRelease", code |-> keyboardMapping[keys[i]][1] ] ]

\* LinuxWindow.send_hotkey: the warning for the first key that is not in
\* keyboardMapping, after which send_hotkey returns
SendHotkeyLog(keys) ==
    LET bad == SelectSeq(keys, LAMBDA k : k \notin DOMAIN keyboardMapping)
    IN  IF bad = << >>
        THEN << >>
        ELSE << Record("warning", "Key is not supported.", Head(bad)) >>

\* LinuxWindow.send_hotkey: the fake_input events, none if a key is unknown
SendHotkeyFaked(keys) ==
    IF \E i \in 1..Len(keys) : keys[i] \notin DOMAIN keyboardMapping
    THEN << >>
    ELSE [ i \in 1..Len(keys) |->
             [ type |-> "KeyPress", code |-> keyboardMapping[keys[i]][1] ] ]
         \o [ i \in 1..Len(keys) |->
             [ type |-> "KeyRelease",
               code |-> keyboardMapping[Reverse(keys)[i]][1] ] ]

\* a variant of the test of align that lets every identifier through
KnownAll(seq) == seq

\* the tracked windows align works on, in the order of its two loops
Known(seq) == SelectSeq(seq, LAMBDA w : w # None)

\* a variant of the right column that starts at floor(width/3)
RightRectFloor ==
    [ x |-> size.width \div 3, y |-> 0,
      width |-> (size.width * 2) \div 3, height |-> size.height ]

\* the rectangle of the left column and of the right column
LeftRect ==
    [ x |-> 0, y |-> 0, width |-> size.width \div 3, height |-> size.height ]
RightRect ==
    [ x |-> (size.width + 2) \div 3, y |-> 0,
      width |-> (size.width * 2) \div 3, height |-> size.height ]

\* the windows align moves, each with its rectangle
AlignMoves(w1, w2, w3, w4) ==
    [ i \in 1..Len(Known(<< w1, w3 >>)) |->
        [ wid |-> Known(<< w1, w3 >>)[i], rect |-> LeftRect ] ]
    \o [ i \in 1..Len(Known(<< w2, w4 >>)) |->
        [ wid |-> Known(<< w2, w4 >>)[i], rect |-> RightRect ] ]

RECURSIVE Flatten(_)
Flatten(seqs) ==
    IF seqs = << >> THEN << >> ELSE Head(seqs) \o Flatten(Tail(seqs))

\* the hotkey events of align: Linux restores each window with Super_L+Down
AlignFaked(w1, w2, w3, w4) ==
    IF op_sys = "linux"
    THEN Flatten([ i \in 1..Len(Known(<< w1, w3, w2, w4 >>)) |->
                     SendHotkeyFaked(<< "Super_L", "Down" >>) ])
    ELSE << >>

(***************************************************************************)
(* run_cgx.                                                                *)
(***************************************************************************)
\* gui.cgx.kill(w): the child process of the session is terminated
CgxKill(procs) == procs \ { cgx_process }

\* a variant of the launch that does not kill the previous child
AliveAfterLaunchNoKill(pid) == alive \cup { pid }

\* the running children after run_cgx has killed the old one and started pid
AliveAfterLaunch(pid) == CgxKill(alive) \cup { pid }

\* a variant of run_cgx that kills the previous child before its test
AliveAfterNotFoundKill == CgxKill(alive)

\* the running children after run_cgx has found no executable: it returns
\* before gui.cgx.kill
AliveAfterNotFound == alive

\* run_cgx up to the call of get_wid
RunCgx ==
    /\ pc = "idle"
    /\ Quiet
    /\ \E fn \in Callers, isfile \in BOOLEAN :
        IF ~isfile
        THEN /\ log' = << Record("error", "CGX not found", 0) >>
             /\ ret' = "run_cgx_not_found"
             /\ alive' = AliveAfterNotFound
             /\ UNCHANGED << cgx_process, launched, killed, pc, caller,
                             elapsed, ids, wid_ret >>
        ELSE /\ launched < MaxLaunch
             /\ launched' = launched + 1
             /\ cgx_process' = launched + 1
             /\ alive' = AliveAfterLaunch(launched + 1)
             /\ killed' = { cgx_process } \cap alive
             /\ log' = << Record("debug", "CGX PID", launched + 1) >>
             /\ caller' = fn
             /\ elapsed' = 0 /\ ids' = << >> /\ wid_ret' = None
             /\ pc' = "get_wid"
             /\ UNCHANGED ret
    /\ UNCHANGED << op_sys, size, keyboardMapping, hotkey, matcher, wid1, wid2, wid3, wid4, mode, stdout_readers,
                    windows, foreground, post, events, moves, faked >>

\* gui.log.CgxStdoutReader(...) after start()
NewReader(pid) == [ pid |-> pid, active |-> TRUE ]

\* a variant of run_cgx that attaches no relay
AttachNothing(readers, pid) == readers

\* run_cgx: a relay is made for the output of the child, appended to
\* stdout_readers and started
AttachReader(readers, pid) == Append(readers, NewReader(pid))

\* run_cgx from the return of get_wid to the first config file
RunCgxAttach ==
    /\ pc = "run_cgx_attach"
    /\ wid2' = wid_ret
    /\ stdout_readers' = AttachReader(stdout_readers, cgx_process)
    /\ \E align_windows \in BOOLEAN :
        IF align_windows
        THEN /\ moves' = moves \o AlignMoves(wid1, wid_ret, wid3, wid4)
             /\ faked' = faked \o AlignFaked(wid1, wid_ret, wid3, wid4)
        ELSE UNCHANGED << moves, faked >>
    /\ elapsed' = 0 /\ ids' = << >> /\ wid_ret' = None /\ killed' = {}
    /\ pc' = "run_cgx_iso"
    /\ UNCHANGED << op_sys, size, keyboardMapping, hotkey, matcher, cgx_process, wid1, wid3, wid4, mode,
                    alive, launched, windows, foreground,
                    caller, post, ret, events, log >>

\* run_cgx: iso.fbd is read into the viewer, or reported missing
RunCgxIso ==
    /\ pc = "run_cgx_iso"
    /\ Quiet
    /\ \E isfile \in BOOLEAN :
        IF isfile
        THEN PostCall(ReadCmd(ISO_FBD), "iso") /\ UNCHANGED log
        ELSE /\ log' = Append(log, Record("error", "No config file", ISO_FBD))
             /\ pc' = "run_cgx_colors"
             /\ ret' = "no_config_file"
             /\ UNCHANGED << post, mode >>
    /\ UNCHANGED << op_sys, size, keyboardMapping, hotkey, matcher, cgx_process, wid1, wid2, wid3, wid4, stdout_readers,
                    desktop, caller, getwid, events, moves, faked >>

\* run_cgx: colors.fbd is read into the viewer, or reported missing; with
\* nothing to post run_cgx records the mode and returns
RunCgxColors ==
    /\ pc = "run_cgx_colors"
    /\ Quiet
    /\ \E isfile \in BOOLEAN :
        IF isfile
        THEN PostCall(ReadCmd(COLORS_FBD), "colors") /\ UNCHANGED log
        ELSE /\ log' = Append(log, Record("error", "No config file", COLORS_FBD))
             /\ PostReturn("colors", "no_config_file")
             /\ UNCHANGED post
    /\ UNCHANGED << op_sys, size, keyboardMapping, hotkey, matcher, cgx_process, wid1, wid2, wid3, wid4, stdout_readers,
                    desktop, caller, getwid, events, moves, faked >>

(***************************************************************************)
(* The relays of the child's output, the application's own window          *)
(* identifier, and the end of the application.                             *)
(***************************************************************************)
\* a relay reads the end of the output of a child that has exited
ReaderEOF ==
    /\ \E i \in 1..Len(stdout_readers) :
            /\ stdout_readers[i].active
            /\ stdout_readers[i].pid \notin alive
            /\ stdout_readers' = [ stdout_readers EXCEPT ![i].active = FALSE ]
    /\ UNCHANGED << op_sys, size, keyboardMapping, hotkey, matcher, cgx_process, wid1, wid2, wid3, wid4, mode,
                    desktop, pc, caller, getwid, post, ret, observed >>

\* Window.stop_stdout_readers
StopStdoutReaders ==
    /\ pc = "idle"
    /\ Quiet
    /\ \E i \in 1..Len(stdout_readers) : stdout_readers[i].active
    /\ stdout_readers' =
            [ i \in 1..Len(stdout_readers) |->
                [ stdout_readers[i] EXCEPT !.active = FALSE ] ]
    /\ log' = << Record("debug", "Stopping threads:", 0) >>
    /\ ret' = "stop_stdout_readers"
    /\ UNCHANGED << op_sys, size, keyboardMapping, hotkey, matcher, cgx_process, wid1, wid2, wid3, wid4, mode,
                    desktop, pc, caller, getwid, post, events, moves, faked >>

\* the application looks up its own window and keeps it in wid1
SetWid1 ==
    /\ pc = "idle"
    /\ wid1 = None
    /\ Quiet
    /\ wid1' = OwnWid
    /\ UNCHANGED << op_sys, size, keyboardMapping, hotkey, matcher, cgx_process, wid2, wid3, wid4, mode, stdout_readers,
                    desktop, pc, caller, getwid, post, ret, observed >>

\* the application ends: "Kill CGX after CAE exit"
Quit ==
    /\ pc = "idle"
    /\ Quiet
    /\ alive' = CgxKill(alive)
    /\ pc' = "exited"
    /\ UNCHANGED << op_sys, size, keyboardMapping, hotkey, matcher, session, launched, windows, foreground, killed,
                    caller, getwid, post, ret, observed >>

Next ==
    \/ RunCgx
    \/ GetWidTick
    \/ RunCgxAttach
    \/ RunCgxIso
    \/ RunCgxColors
    \/ UserPost
    \/ MethodEnter
    \/ SendKey
    \/ MethodExit
    \/ StopStdoutReaders
    \/ SetWid1
    \/ Quit
    \/ ProcExit
    \/ WindowOpen
    \/ WindowClose
    \/ ReaderEOF
    \/ Observe

Spec == Init /\ [][Next]_vars


(***************************************************************************)
(* Title matching on its own: the test of get_wid applied to every window  *)
(* name of up to MaxTitleLen characters.                                   *)
(***************************************************************************)
\* the titles looked for
Titles == { << "v" >>, << "V", "v" >> }

\* the characters window names are made of
NameChars == { "V", " ", "-" }

MatchInit ==
    /\ Constructed
    /\ size = ScreenSize
    /\ match_title \in Titles
    /\ match_wname = << >>
    /\ matched = FullMatch(match_title, << >>)

\* the window at hand has a name one character longer; get_wid tests it
MatchName ==
    /\ Len(match_wname) < MaxTitleLen
    /\ \E c \in NameChars :
            /\ match_wname' = Append(match_wname, c)
            /\ matched' = FullMatch(match_title, Append(match_wname, c))
    /\ UNCHANGED << op_sys, size, keyboardMapping, hotkey, session, desktop, pc, caller, getwid, post, ret,
                    observed, match_title >>

MatchNext == MatchName

MatchSpec == MatchInit /\ [][MatchNext]_vars


(***************************************************************************)
(* The window layout on its own: align called once, for every screen       *)
(* width up to MaxWidth and every combination of known and unknown         *)
(* window identifiers.                                                     *)
(***************************************************************************)
\* the keyword dialog (wid3) and the help browser (wid4), when they are open
DialogWid == 4
HelpWid == 5

AlignInit ==
    /\ op_sys \in { "linux", "windows" }
    /\ keyboardMapping = BuiltMapping(op_sys)
    /\ hotkey = << >>
    /\ size \in [ width : 0..MaxWidth, height : { ScreenSize.height } ]
    /\ wid1 \in { None, OwnWid }
    /\ wid2 \in { None } \cup ViewerWids
    /\ wid3 \in { None, DialogWid }
    /\ wid4 \in { None, HelpWid }
    /\ cgx_process = None
    /\ mode = NoName
    /\ stdout_readers = << >>
    /\ alive = {}
    /\ launched = 0
    /\ windows = << OwnWid >>
    /\ foreground = OwnWid
    /\ pc = "idle"
    /\ caller = NoName
    /\ elapsed = 0 /\ ids = << >> /\ wid_ret = None
    /\ post = NoPost
    /\ ret = "none"
    /\ killed = {}
    /\ events = << >> /\ log = << >> /\ moves = << >> /\ faked = << >>
    /\ match_title = CGX_TITLE /\ match_wname = << >> /\ matched = FALSE

\* align() of the variant in use, called by the application
Align ==
    /\ pc = "idle"
    /\ ret = "none"
    /\ moves' = moves \o AlignMoves(wid1, wid2, wid3, wid4)
    /\ faked' = faked \o AlignFaked(wid1, wid2, wid3, wid4)
    /\ ret' = "align_done"
    /\ UNCHANGED << op_sys, size, keyboardMapping, hotkey, matcher, session, desktop, pc, caller, getwid,
                    post, events, log >>

AlignNext == Align

AlignSpec == AlignInit /\ [][AlignNext]_vars

(***************************************************************************)
(* send_hotkey on its own: called once, on Linux, with every sequence of   *)
(* up to MaxKeys keys.                                                     *)
(***************************************************************************)
\* the keys the application may name; VK_LWIN is a key of the Windows table
HotkeyKeys == { "Super_L", "Down", "Control_L", "a", "A", "VK_LWIN" }

HotkeyArgs == UNION { [ 1..n -> HotkeyKeys ] : n \in 0..MaxKeys }

HotkeyInit ==
    /\ Constructed
    /\ op_sys = "linux"
    /\ size = ScreenSize
    /\ match_title = CGX_TITLE /\ match_wname = << >> /\ matched = FALSE

\* send_hotkey(*keys) called by the application
SendHotkey ==
    /\ pc = "idle"
    /\ ret = "none"
    /\ op_sys = "linux"
    /\ \E ks \in HotkeyArgs :
            /\ hotkey' = ks
            /\ faked' = faked \o SendHotkeyFaked(ks)
            /\ log' = log \o SendHotkeyLog(ks)
    /\ ret' = "send_hotkey_done"
    /\ UNCHANGED << op_sys, size, keyboardMapping, matcher, session, desktop,
                    pc, caller, getwid, post, events, moves >>

HotkeyNext == SendHotkey

HotkeySpec == HotkeyInit /\ [][HotkeyNext]_vars

\* run_cgx up to the return of get_wid, on a desktop whose windows come and
\* go and with a child process that may exit
LocateNext ==
    \/ RunCgx
    \/ GetWidTick
    \/ ProcExit
    \/ WindowOpen
    \/ WindowClose

\* the UI thread is never stopped for good inside the polling loop: sleep
\* returns and the next pass runs
FairSpec == Init /\ [][LocateNext]_vars /\ WF_vars(GetWidTick)

\* the steps of run_cgx after the viewer window was looked up, and the
\* reading off of what each stage produced
Startup ==
    \/ RunCgxIso
    \/ RunCgxColors
    \/ MethodEnter
    \/ SendKey
    \/ MethodExit
    \/ Observe

\* the UI thread is never stopped for good inside run_cgx or post: every
\* statement of theirs returns and the next one runs
StartupSpec == Init /\ [][Next]_vars /\ WF_vars(Startup)

\* the application at work without ever stopping a relay itself
RelayNext ==
    \/ RunCgx
    \/ GetWidTick
    \/ RunCgxAttach
    \/ RunCgxIso
    \/ RunCgxColors
    \/ UserPost
    \/ MethodEnter
    \/ SendKey
    \/ MethodExit
    \/ SetWid1
    \/ Quit
    \/ ProcExit
    \/ WindowOpen
    \/ WindowClose
    \/ ReaderEOF
    \/ Observe

\* the worker thread of a relay is never stopped for good: its read of a
\* stream that has ended returns
RelaySpec == Init /\ [][RelayNext]_vars /\ WF_vars(ReaderEOF)

(***************************************************************************)
(* Properties.                                                             *)
(***************************************************************************)
KeyTypes == { "KeyPress", "KeyRelease", "keydown", "keyup" }
PressTypes == { "KeyPress", "keydown" }
ReleaseTypes == { "KeyRelease", "keyup" }

IsShift(e) == op_sys = "windows" /\ e.code = VK_SHIFT

\* a step that delivers at least one key event
KeyDelivered ==
    /\ Len(events') > Len(events)
    /\ \E i \in (Len(events) + 1)..Len(events') : events'[i].type \in KeyTypes

\* some precondition of post does not hold
PostUnmet == cgx_process = None \/ cgx_process \notin alive \/ wid2 = None

\* everything post could touch, but for the place the UI thread is at
PostFrame ==
    << cgx_process, wid1, wid2, wid3, wid4, stdout_readers, desktop,
       events, log, moves, faked, post >>

\* C1: a call of post made while the child process is None, or has exited,
\* or wid2 is None, is a complete no-op: it delivers no key event, makes no
\* focus change, writes no log record, leaves the session as it was and
\* returns to its caller.
C1_PostNoOp ==
    [][ /\ (UserPost /\ PostUnmet)
            => (pc' = "idle" /\ ret' = "post_noop" /\ UNCHANGED mode
                /\ UNCHANGED PostFrame)
        /\ (RunCgxIso /\ PostUnmet /\ log' = log)
            => (pc' = "run_cgx_colors" /\ ret' = "post_noop" /\ UNCHANGED mode
                /\ UNCHANGED PostFrame)
        /\ (RunCgxColors /\ PostUnmet /\ log' = log)
            => (pc' = "idle" /\ ret' = "post_noop" /\ UNCHANGED PostFrame)
      ]_vars

\* a post that found its child process exited, with wid2 known
C1_Witness ==
    /\ pc = "idle" /\ ret = "post_noop"
    /\ cgx_process # None /\ cgx_process \notin alive /\ wid2 # None

\* C2 as claimed: every key event post delivers is delivered while wid2 is
\* non-null and the child process is still running.
C2_DeliveredWhileRunning ==
    [][ KeyDelivered => (wid2 # None /\ Running) ]_vars

\* C2 as amended: every key event post delivers is delivered while wid2 is
\* non-null, in a call of post whose check at call time found the child
\* process running; the process may have exited since that check.
C2_DeliveredAfterCheck ==
    [][ KeyDelivered => (wid2 # None /\ cgx_process # None /\ post.checked) ]_vars

\* a post goes on delivering after its child process has exited
C2_Witness ==
    /\ pc = "sendkey" /\ post.batch = 3
    /\ ~Running
    /\ \E i \in 1..Len(events) : events[i].type \in KeyTypes

\* the key events of evs, cut at every flush or focus change
RECURSIVE Segments(_, _)
Segments(evs, cur) ==
    IF evs = << >>
    THEN (IF cur = << >> THEN << >> ELSE << cur >>)
    ELSE IF Head(evs).type \in KeyTypes
    THEN Segments(Tail(evs), Append(cur, Head(evs)))
    ELSE (IF cur = << >> THEN << >> ELSE << cur >>)
         \o Segments(Tail(evs), << >>)

\* the keys pressed in evs, each with its case flag, Shift left out
Strokes(evs) ==
    LET presses == SelectSeq(evs, LAMBDA e : e.type \in PressTypes /\ ~IsShift(e))
    IN  [ i \in 1..Len(presses) |-> << presses[i].code, presses[i].state >> ]

IsSupported(symbol) == symbol \in DOMAIN keyboardMapping
Supported(text) == SelectSeq(text, IsSupported)
Unsupported(text) == SelectSeq(text, LAMBDA c : ~IsSupported(c))
KeysOf(text) == [ i \in 1..Len(text) |-> keyboardMapping[text[i]] ]

\* every key press is followed at once by the release of the same key
PressReleasePaired(evs) ==
    \A i \in 1..Len(evs) :
        (evs[i].type \in PressTypes /\ ~IsShift(evs[i]))
            => /\ i < Len(evs)
               /\ evs[i + 1].type \in ReleaseTypes
               /\ evs[i + 1].code = evs[i].code

\* events holds three batches of keys, t1 then t2 then t3, and no key
\* before, between or after them
ThreeBatches(t1, t2, t3) ==
    LET b == Segments(events, << >>)
    IN  /\ Len(b) = 3
        /\ Strokes(b[1]) = KeysOf(t1)
        /\ Strokes(b[2]) = KeysOf(t2)
        /\ Strokes(b[3]) = KeysOf(t3)
        /\ events[Len(events)].type \notin KeyTypes
        /\ Len(Strokes(events)) = Len(t1) + Len(t2) + Len(t3)
        /\ PressReleasePaired(events)

\* C3 as claimed: a post whose preconditions hold delivers a lone newline,
\* then every character of cmd in order and one newline, then one space,
\* each as a key press followed at once by its release, and nothing else.
C3_EveryCharacter ==
    ret = "post_done"
        => /\ \A i \in 1..Len(post.cmd) : IsSupported(post.cmd[i])
           /\ ThreeBatches(<< "\n" >>, post.cmd \o << "\n" >>, << " " >>)

\* C3 as amended: a post whose preconditions hold delivers a lone newline,
\* then every character of cmd that has an entry in keyboardMapping, in
\* order, and one newline, then one space, each as a key press followed at
\* once by its release, and nothing else.
C3_EverySupportedCharacter ==
    ret = "post_done"
        => ThreeBatches(<< "\n" >>, Supported(post.cmd) \o << "\n" >>, << " " >>)

\* a post of a command with a shifted letter has returned
C3_Witness ==
    /\ ret = "post_done" /\ pc = "idle"
    /\ post.cmd = << "A", "\\b" >>

\* the symbols the warnings in the log name, in order
Warned ==
    LET w == SelectSeq(log, LAMBDA r : r.level = "warning")
    IN  [ i \in 1..Len(w) |-> w[i].arg ]

\* C4: for a command with symbols that have no entry in keyboardMapping,
\* post delivers the press/release pair of every supported symbol in the
\* original order, nothing for the others, and writes one warning for each
\* occurrence of an unsupported symbol, on both variants.
C4_UnsupportedSkipped ==
    ret = "post_done"
        => /\ Strokes(events)
                = KeysOf(Supported(<< "\n" >> \o post.cmd \o << "\n", " " >>))
           /\ PressReleasePaired(events)
           /\ Warned = Unsupported(post.cmd)

\* a post of a command with two unsupported symbols around a supported one
C4_Witness ==
    /\ ret = "post_done"
    /\ op_sys = "windows"
    /\ post.cmd = << "é", "b", "é" >>
    /\ Len(Warned) = 2


\* C5: get_wid always ends: while the loop runs the deadline has not passed,
\* every pass takes at least the 100 ms of its sleep, and whatever windows
\* open and close the loop ends, returning a window identifier, or None
\* exactly when the deadline has passed.
C5_GetWidTerminates ==
    /\ [](pc = "get_wid" => elapsed <= TimeoutMs)
    /\ [][ (pc = "get_wid" /\ elapsed' # elapsed) => elapsed' >= elapsed + SleepMs
         ]_vars
    /\ [](pc = "run_cgx_attach" => (wid_ret = None <=> elapsed > TimeoutMs))
    /\ (pc = "get_wid")
            ~> (pc = "run_cgx_attach" /\ wid_ret \in WindowIds \cup { None })

\* get_wid has returned None past its deadline, no poll having seen a match
C5_Witness ==
    /\ pc = "run_cgx_attach"
    /\ wid_ret = None /\ elapsed > TimeoutMs
    /\ Range(ids) \cap ViewerWids = {}

\* the windows whose title is the target title with its ' - ' decorations
ViewerTitled == { w \in WindowIds : FullMatch(CGX_TITLE, TitleOf[w]) }

\* the positions of ws that hold such a window
MatchingPositions(ws) == { i \in 1..Len(ws) : ws[i] \in ViewerTitled }

\* C6: when several visible windows match on the same poll, get_wid
\* returns the first of them in the enumeration order, on both variants.
C6_FirstMatchReturned ==
    (pc = "run_cgx_attach" /\ wid_ret # None)
        => \E i \in MatchingPositions(ids) :
                /\ wid_ret = ids[i]
                /\ \A j \in MatchingPositions(ids) : i <= j

\* the text cut at its spaces
RECURSIVE SplitAtSpaces(_)
SplitAtSpaces(text) ==
    IF \A i \in 1..Len(text) : text[i] # " "
    THEN << text >>
    ELSE LET i == CHOOSE k \in 1..Len(text) :
                    text[k] = " " /\ \A j \in 1..(k - 1) : text[j] # " "
         IN  << SubSeq(text, 1, i - 1) >>
             \o SplitAtSpaces(SubSeq(text, i + 1, Len(text)))

\* name is words joined by ' - ', one of the words being the title, all
\* compared without regard to case
Decorated(t, name) ==
    LET parts == SplitAtSpaces(Lower(name))
    IN  /\ Len(parts) % 2 = 1
        /\ \A k \in 1..Len(parts) :
                IF k % 2 = 0 THEN parts[k] = << "-" >> ELSE parts[k] # << >>
        /\ \E k \in 1..Len(parts) : k % 2 = 1 /\ parts[k] = Lower(t)

\* C7: a window name matches the pattern for a title exactly when, without
\* regard to case, it is the title preceded by any number of 'word - ' and
\* followed by any number of ' - word'.
C7_MatchesDecoratedTitle == matched <=> Decorated(match_title, match_wname)

\* a name with a decoration on either side of the title has matched
C7_Witness ==
    /\ matched
    /\ match_title = << "v" >>
    /\ match_wname = << "V", " ", "-", " ", "V", " ", "-", " ", "V" >>

\* the window-list records in the log
WindowListRecords ==
    SelectSeq(log, LAMBDA r : r.level = "debug"
                              /\ r.msg \in { "Window list:", "window" })

\* C8: a get_wid that times out writes exactly one window-list record,
\* however many windows are visible and on both variants; a get_wid that
\* succeeds writes none.
C8_OneWindowListRecord ==
    pc = "run_cgx_attach"
        => Len(WindowListRecords) = (IF wid_ret = None THEN 1 ELSE 0)

\* C9: whenever run_cgx starts a new child process the previous one is no
\* longer running, and at no point are two child processes alive.
C9_OneChildAlive ==
    /\ [](Cardinality(alive) <= 1)
    /\ [][ cgx_process' # cgx_process
            => (cgx_process \notin alive' /\ cgx_process' \in alive') ]_vars

\* run_cgx has started a second child after killing a first that still ran
C9_Witness ==
    /\ pc = "get_wid"
    /\ launched = 2 /\ killed = { 1 }
    /\ alive = { 2 }

\* C10: on Windows every call of the body of post that moved the foreground
\* to the viewer window ends with the foreground back on the application's
\* own window.
C10_FocusRestored ==
    [][ (op_sys = "windows" /\ pc = "method_exit" /\ pc' # "method_exit"
         /\ post.moved)
            => foreground' = OwnWid ]_vars

\* how many of the four tracked identifiers are known
KnownCount ==
    (IF wid1 # None THEN 1 ELSE 0) + (IF wid2 # None THEN 1 ELSE 0)
    + (IF wid3 # None THEN 1 ELSE 0) + (IF wid4 # None THEN 1 ELSE 0)

\* the windows the move/resize operations were applied to
MovedWids == { moves[i].wid : i \in 1..Len(moves) }

\* C11: align moves and resizes exactly the tracked windows whose
\* identifier is not None, each once, and no other window; it returns
\* whatever identifiers are None, and with only wid1 known it moves exactly
\* one window.
C11_AlignMovesKnown ==
    ret = "align_done"
        => /\ Len(moves) = KnownCount
           /\ MovedWids = { wid1, wid2, wid3, wid4 } \ { None }
           /\ (wid1 # None /\ wid2 = None /\ wid3 = None /\ wid4 = None)
                => (Len(moves) = 1 /\ moves[1].wid = wid1)

\* align has returned with only the application's own window known
C11_Witness ==
    /\ ret = "align_done"
    /\ wid1 = OwnWid /\ wid2 = None /\ wid3 = None /\ wid4 = None
    /\ Len(moves) = 1

\* the relays marked active
ActiveReaders == { i \in 1..Len(stdout_readers) : stdout_readers[i].active }

\* C12 as claimed: at most one relay in stdout_readers is marked active, and
\* no relay of a previous session is active alongside the relay of the
\* current one.
C12_OneActiveRelay == Cardinality(ActiveReaders) <= 1

\* C12 as amended: at most one active relay reads the output of the child
\* process of the current session; a relay of a previous session may still
\* be marked active alongside it, but only while it has not yet read the
\* end of the output of its child, which no longer runs.
C12_OneActiveRelayOfSession ==
    /\ Cardinality({ i \in ActiveReaders :
                        stdout_readers[i].pid = cgx_process }) <= 1
    /\ \A i \in ActiveReaders :
            stdout_readers[i].pid # cgx_process
                => stdout_readers[i].pid \notin alive

\* the relay of the first session is still marked active beside the relay
\* of the second
C12_Witness ==
    /\ Len(stdout_readers) = 2
    /\ stdout_readers[1].active /\ stdout_readers[2].active
    /\ stdout_readers[1].pid \notin alive
    /\ stdout_readers[2].pid = cgx_process

\* the places of the UI thread inside the body of post
PostBody == { "method_enter", "sendkey", "method_exit" }

\* C13: when get_wid times out inside run_cgx, wid2 becomes None and the
\* child process just started is left running: no step of run_cgx after the
\* launch ends a process; and as long as wid2 is None no post, the two
\* config-file posts of the same run_cgx included, enters its body or
\* delivers a key event; only a later run_cgx gives wid2 a value.
C13_TimeoutLeavesProcess ==
    [][ /\ (GetWidTick \/ RunCgxAttach \/ RunCgxIso \/ RunCgxColors)
                => alive' = alive
        /\ (RunCgxAttach /\ wid_ret = None) => wid2' = None
        /\ wid2 = None
                => /\ ~KeyDelivered
                   /\ pc' \notin PostBody
                   /\ (wid2' # None => RunCgxAttach)
      ]_vars

\* get_wid has timed out, the child still runs, and the post of iso.fbd
\* has returned without doing anything
C13_Witness ==
    /\ pc = "run_cgx_colors"
    /\ ret = "post_noop"
    /\ wid2 = None
    /\ cgx_process # None /\ cgx_process \in alive

\* what run_cgx does about one config file: the file is absent, one error
\* naming it is logged and post is not called; or it is present, nothing is
\* logged and post is called once with 'read ' and its name, which either
\* enters the body of post or finds a precondition unmet
ConfigHandled(file_name, ctx) ==
    \/ /\ log' = Append(log, Record("error", "No config file", file_name))
       /\ ret' = "no_config_file"
       /\ post' = post /\ events' = events
       /\ pc' \notin PostBody
    \/ /\ log' = log
       /\ \/ /\ pc' = "method_enter"
             /\ post'.cmd = << "r", "e", "a", "d", " " >> \o file_name
             /\ post'.ctx = ctx /\ post'.batch = 1
          \/ /\ ret' = "post_noop" /\ PostUnmet
             /\ post' = post /\ events' = events
             /\ pc' \notin PostBody

\* C14: for each of iso.fbd and colors.fbd run_cgx logs one error and posts
\* nothing when the file is absent, and posts one 'read <file>' when it is
\* present; iso.fbd is handled before colors.fbd; whichever files are there
\* run_cgx goes on to its end, where it records the mode.
C14_ConfigFilesOptional ==
    /\ [][ /\ (pc = "run_cgx_iso" /\ pc' # pc) => ConfigHandled(ISO_FBD, "iso")
           /\ (pc = "run_cgx_colors" /\ pc' # pc)
                => ConfigHandled(COLORS_FBD, "colors")
           /\ (pc # "run_cgx_colors" /\ pc' = "run_cgx_colors")
                => (pc = "run_cgx_iso" \/ (pc = "method_exit" /\ post.ctx = "iso"))
           /\ (pc # "idle" /\ pc' = "idle" /\ post'.ctx # "user")
                => (/\ pc = "run_cgx_colors"
                       \/ (pc = "method_exit" /\ post.ctx = "colors")
                    /\ mode' = caller /\ caller \in Callers)
         ]_vars
    /\ (pc = "run_cgx_iso") ~> (pc = "idle" /\ mode = caller)

\* run_cgx has returned with the mode recorded, its last statement having
\* reported colors.fbd missing, the viewer window being known
C14_Witness ==
    /\ pc = "idle"
    /\ mode = "cgx_inp"
    /\ ret = "no_config_file"
    /\ log = << Record("error", "No config file", COLORS_FBD) >>
    /\ wid2 # None

\* the i-th relay of stdout_readers is marked active
ActiveAt(i) == i <= Len(stdout_readers) /\ stdout_readers[i].active

\* C15: run_cgx attaches to the child it started one relay, marked active;
\* once that child has been killed, or has exited, the relay comes to read
\* the end of its stream and its active flag becomes false, no stop() or
\* stop_stdout_readers() being called.
C15_RelayEndsWithChild ==
    /\ [][ RunCgxAttach
            => stdout_readers'
                 = Append(stdout_readers,
                          [ pid |-> cgx_process, active |-> TRUE ]) ]_vars
    /\ \A i \in 1..MaxLaunch :
            (ActiveAt(i) /\ stdout_readers[i].pid \notin alive)
                ~> (i <= Len(stdout_readers) /\ ~stdout_readers[i].active)

\* the relay of the first child is no longer active after run_cgx killed
\* that child to start a second one
C15_Witness ==
    /\ pc = "get_wid"
    /\ launched = 2 /\ killed = { 1 }
    /\ Len(stdout_readers) = 1
    /\ stdout_readers[1].pid = 1 /\ ~stdout_readers[1].active

\* C16: keyboardMapping is the table the constructor of the variant built
\* and no step of run_cgx, get_wid, post, send_hotkey or align changes it,
\* so a symbol resolves to the same (code, case) pair at every call.
C16_MappingReadOnly ==
    /\ [](keyboardMapping = (IF op_sys = "linux" THEN LinuxKeyboardMapping
                                                ELSE WindowsKeyboardMapping))
    /\ [][ keyboardMapping' = keyboardMapping ]_vars

\* two posts have gone through sendkey for a symbol without an entry, on
\* a second session, and the table is the one first built
C16_Witness ==
    /\ ret = "post_done"
    /\ post.cmd = << "é", "b", "é" >>
    /\ launched = 2
    /\ "b" \in DOMAIN keyboardMapping /\ "é" \notin DOMAIN keyboardMapping

\* the printable ASCII punctuation characters
Punctuation ==
    { "!", "\"", "#", "$", "%", "&", "'", "(", ")", "*", "+", ",", "-", ".",
      "/", ":", ";", "<", "=", ">", "?", "@", "[", "\\", "]", "^", "_",
      "GRAVE", "{", "|", "}", "~" }

\* the symbols the table is to cover
AsciiSymbols ==
    Range(LowerSeq) \cup Range(UpperSeq) \cup Range(DigitSeq)
    \cup Punctuation \cup { " ", "\t", "\n", "\\b" }

\* C17: on each variant keyboardMapping has an entry for every ASCII
\* letter in both cases, every digit, every printable ASCII punctuation
\* character, space, tab, newline and backspace, lowercase letters and
\* digits with shift flag 0 and uppercase letters with shift flag 1; and a
\* post of a command made of these symbols writes no warning.
C17_TableCoversAscii ==
    /\ AsciiSymbols \subseteq DOMAIN keyboardMapping
    /\ \A c \in (Range(LowerSeq) \cup Range(DigitSeq))
                    \cap DOMAIN keyboardMapping : keyboardMapping[c][2] = 0
    /\ \A c \in Range(UpperSeq) \cap DOMAIN keyboardMapping :
            keyboardMapping[c][2] = 1
    /\ (ret = "post_done" /\ Range(post.cmd) \subseteq AsciiSymbols)
            => Warned = << >>

\* the last poll of get_wid saw a window whose title matches
LastPollMatched == MatchingPositions(ids) # {}

\* C18 as claimed: when a poll of get_wid sees a matching window, get_wid
\* returns a window identifier and not None, at whatever elapsed time the
\* poll is made; None is returned only if no poll saw a match.
C18_MatchAlwaysReturned ==
    pc = "run_cgx_attach" => (LastPollMatched <=> wid_ret # None)

\* C18 as amended: get_wid returns the identifier of a matching window
\* exactly when a poll sees one and the time measured after that poll is
\* within the deadline; a match seen on the poll after which the deadline
\* has passed is dropped and None is returned.
C18_MatchReturnedWithinDeadline ==
    pc = "run_cgx_attach"
        => /\ wid_ret # None <=> (LastPollMatched /\ elapsed <= TimeoutMs)
           /\ wid_ret # None
                => \E i \in MatchingPositions(ids) : wid_ret = ids[i]

\* get_wid has returned None although its last poll, made as the deadline
\* passed, saw a matching window
C18_Witness ==
    /\ pc = "run_cgx_attach"
    /\ wid_ret = None
    /\ elapsed > TimeoutMs
    /\ LastPollMatched

\* C19: run_cgx called when the executable of the viewer does not exist
\* writes one error record and returns, leaving cgx_process, the window
\* identifiers, mode and stdout_readers as they were; it starts no process,
\* makes no post and does not kill a child that is still running.
C19_NotFoundChangesNothing ==
    [][ (RunCgx /\ ret' = "run_cgx_not_found")
            => /\ log' = Append(log, Record("error", "CGX not found", 0))
               /\ UNCHANGED << session, alive, launched, killed, windows,
                               foreground, post, events, moves, faked, pc >>
      ]_vars

\* run_cgx has returned for want of the executable while the child of an
\* earlier session still runs
C19_Witness ==
    /\ ret = "run_cgx_not_found"
    /\ pc = "idle"
    /\ cgx_process # None /\ cgx_process \in alive
    /\ wid2 # None /\ mode # NoName
    /\ Len(stdout_readers) = 1

\* floor(n/3) and ceil(n/3), from their definitions
Floor3(n) == CHOOSE q \in 0..n : 3 * q <= n /\ n < 3 * (q + 1)
Ceil3(n) == CHOOSE q \in 0..n : 3 * (q - 1) < n /\ n <= 3 * q

\* the rectangle align gave to window w
RectOf(w) == { moves[i].rect : i \in { j \in 1..Len(moves) : moves[j].wid = w } }

\* C20: for a screen of width W and height H, align gives wid1 and wid3
\* the rectangle x = 0, width = floor(W/3) and wid2 and wid4 the rectangle
\* x = ceil(W/3), width = floor(2W/3), all at y = 0 with height H; the two
\* columns neither overlap nor overflow: floor(W/3) <= ceil(W/3) and
\* ceil(W/3) + floor(2W/3) = W.
C20_ColumnsTile ==
    ret = "align_done"
        => LET W == size.width
               left == [ x |-> 0, y |-> 0, width |-> Floor3(W),
                         height |-> size.height ]
               right == [ x |-> Ceil3(W), y |-> 0, width |-> Floor3(2 * W),
                          height |-> size.height ]
           IN  /\ \A w \in { wid1, wid3 } \ { None } : RectOf(w) = { left }
               /\ \A w \in { wid2, wid4 } \ { None } : RectOf(w) = { right }
               /\ left.x + left.width <= right.x
               /\ right.x + right.width = W

\* align has laid out all four windows on a screen whose width is not a
\* multiple of three
C20_Witness ==
    /\ ret = "align_done"
    /\ size.width = 10
    /\ wid1 # None /\ wid2 # None /\ wid3 # None /\ wid4 # None
    /\ Len(moves) = 4

\* the key events among those delivered
KeyEvents == SelectSeq(events, LAMBDA e : e.type \in KeyTypes)

\* the keys held down after the first n events of evs
HeldAfter(evs, n) ==
    { evs[i].code : i \in { k \in 1..n :
        /\ evs[k].type \in PressTypes
        /\ \A j \in (k + 1)..n :
                ~(evs[j].type \in ReleaseTypes /\ evs[j].code = evs[k].code) } }

\* C21: on Windows the key events of a post hold Shift exactly while a
\* symbol with shift flag 1 is pressed and released: Shift goes down just
\* before the key-down of such a symbol and up just after its key-up, a
\* symbol with flag 0 is pressed and released with Shift up, and once
\* sendkey is through with a symbol, and so when post returns, no key is
\* held down, Shift included.
C21_ShiftHeldWhileShifted ==
    op_sys = "windows"
        => LET k == KeyEvents
               n == Len(k)
           IN  /\ \A i \in 1..n :
                    IF IsShift(k[i])
                    THEN IF k[i].type = "keydown"
                         THEN /\ i + 3 <= n
                              /\ k[i + 1].type = "keydown" /\ ~IsShift(k[i + 1])
                              /\ k[i + 1].state = 1
                              /\ k[i + 2].type = "keyup"
                              /\ k[i + 2].code = k[i + 1].code
                              /\ k[i + 3].type = "keyup" /\ IsShift(k[i + 3])
                         ELSE /\ i > 3
                              /\ k[i - 3].type = "keydown" /\ IsShift(k[i - 3])
                    ELSE (VK_SHIFT \in HeldAfter(k, i - 1)) <=> (k[i].state = 1)
               /\ HeldAfter(k, n) = {}

\* a post of a command with an uppercase letter has returned on Windows,
\* Shift having gone down and up around the letter
C21_Witness ==
    /\ op_sys = "windows"
    /\ ret = "post_done"
    /\ post.cmd = << "A", "\\b" >>
    /\ \E i \in 1..Len(KeyEvents) :
            /\ IsShift(KeyEvents[i]) /\ KeyEvents[i].type = "keyup"
            /\ VK_SHIFT \notin HeldAfter(KeyEvents, i)

\* C22: send_hotkey leaves no key held: when every key has an entry in
\* keyboardMapping it presses the keys in the order of its arguments and
\* then releases them in the reverse order, and writes no warning; when
\* some key has none it sends no event at all and writes exactly one
\* warning, which names the first such key.
C22_HotkeyReleasesAll ==
    ret = "send_hotkey_done"
        => LET n == Len(hotkey)
           IN  IF \A i \in 1..n : IsSupported(hotkey[i])
               THEN /\ Len(faked) = 2 * n
                    /\ \A i \in 1..n :
                            /\ faked[i].type = "KeyPress"
                            /\ faked[i].code = keyboardMapping[hotkey[i]][1]
                            /\ faked[2 * n + 1 - i].type = "KeyRelease"
                            /\ faked[2 * n + 1 - i].code = faked[i].code
                    /\ HeldAfter(faked, Len(faked)) = {}
                    /\ log = << >>
               ELSE /\ faked = << >>
                    /\ Len(log) = 1
                    /\ log[1].level = "warning"
                    /\ ~IsSupported(log[1].arg)
                    /\ \E i \in 1..n :
                            /\ hotkey[i] = log[1].arg
                            /\ \A j \in 1..(i - 1) : IsSupported(hotkey[j])

\* send_hotkey has pressed Super_L and Down and released Down and Super_L
C22_Witness ==
    /\ ret = "send_hotkey_done"
    /\ hotkey = << "Super_L", "Down" >>
    /\ Len(faked) = 4
    /\ faked[3].code = "Down" /\ faked[4].code = "Super_L"

=============================================================================
